---------------------------- MODULE Spec2Model ----------------------------
(***************************************************************************)
(* A model of the font merger, Lib/fontTools/merge.py.                     *)
(*                                                                         *)
(* Glyph names and command-line arguments are sequences of one-character   *)
(* strings, so that string concatenation, prefixes, find and replace are   *)
(* computed rather than assumed.  Python exceptions are records            *)
(* [type, tag, key]; a handler that raises leaves pc = "done" with         *)
(* error # NoError.                                                        *)
(***************************************************************************)
EXTENDS Integers, Sequences, FiniteSets, TLC

VARIABLES
    pc,              \* position of the operation under way
    error,           \* the exception that left the operation, or NoError
    glyphOrders,     \* the glyphOrders list handed to _mergeGlyphOrders
    megaGlyphOrder,  \* the value _mergeGlyphOrders returned
    tag,             \* the table kind whose merge method runs
    tables,          \* Merger.tables: the source tables of that kind
    merged,          \* the table the merge method filled in (self)
    fontfiles,       \* the fonts named by Merger.merge's argument
    drop_tables,     \* Options.drop_tables
    allTags,         \* the tags the dispatch loop has still to visit
    mega,            \* the tables installed so far in the output font
    log,             \* what Merger.merge handed to self.log
    output,          \* the font Merger.merge returned, None before it returns
    argv,            \* parse_opts' argument list
    ignore_unknown,  \* parse_opts' ignore_unknown argument
    ret              \* parse_opts' return value

vars == <<pc, error, glyphOrders, megaGlyphOrder, tag, tables, merged,
          fontfiles, drop_tables, allTags, mega, log, output,
          argv, ignore_unknown, ret>>

NoError == [type |-> "none", tag |-> "", key |-> ""]

Raise(type, t, key) == [type |-> type, tag |-> t, key |-> key]

None == [none |-> TRUE]

(***************************************************************************)
(* Bounds of the model.                                                    *)
(***************************************************************************)
MaxFonts == 2
MaxGlyphs == 2
MaxSources == 2
MaxSubtables == 3
MaxArgs == 2

(***************************************************************************)
(* Sequences and strings.                                                  *)
(***************************************************************************)
Range(s) == {s[i] : i \in DOMAIN s}

NoDuplicates(s) == \A i, j \in DOMAIN s : i # j => s[i] # s[j]

RECURSIVE Flatten(_)
Flatten(ss) == IF ss = <<>> THEN <<>> ELSE Head(ss) \o Flatten(Tail(ss))

RECURSIVE SumLen(_)
SumLen(ss) == IF ss = <<>> THEN 0 ELSE Len(Head(ss)) + SumLen(Tail(ss))

SeqsUpTo(S, n) == UNION {[1..m -> S] : m \in 0..n}

DigitChars == <<"0", "1", "2", "3", "4", "5", "6", "7", "8", "9">>

\* repr(n) of a non-negative int: its decimal digits.
RECURSIVE repr(_)
repr(n) == IF n < 10 THEN <<DigitChars[n + 1]>>
           ELSE repr(n \div 10) \o <<DigitChars[(n % 10) + 1]>>

(***************************************************************************)
(* Merger._mergeGlyphOrders.  Font n (0-based) is glyphOrders[n + 1].      *)
(***************************************************************************)
RenameNoIndex(glyphName, n) == glyphName \o <<"#">> \o repr(0)

\* glyphName += "#" + repr(n)
Rename(glyphName, n) == glyphName \o <<"#">> \o repr(n)

\* The list the loop leaves in glyphOrders[n + 1] (glyphOrder[i] = glyphName).
RenamedOrder(glyphOrder, n) ==
    [i \in 1..Len(glyphOrder) |-> Rename(glyphOrder[i], n)]

RenamedOrdersNotWrittenBack(orders) == orders

\* The passed-in glyphOrders after the call, modified in place.
RenamedOrders(orders) ==
    [k \in 1..Len(orders) |-> RenamedOrder(orders[k], k - 1)]

\* mega, appended to glyph by glyph, font by font.
_mergeGlyphOrders(orders) ==
    Flatten([k \in 1..Len(orders) |-> RenamedOrder(orders[k], k - 1)])

(***************************************************************************)
(* The unifier on its own: glyph names that already hold '#' and digits.   *)
(***************************************************************************)
NamePool == { <<"a">>, <<"a", "#", "0">>, <<"a", "#", "1">>,
              <<"a", "#", "1", "#", "0">> }

GlyphOrderPool == {s \in SeqsUpTo(NamePool, MaxGlyphs) : NoDuplicates(s)}

IdleUnifier ==
    /\ glyphOrders = <<>>
    /\ megaGlyphOrder = <<>>

IdleMerger ==
    /\ tag = ""
    /\ tables = <<>>
    /\ merged = None

IdleOrchestrator ==
    /\ drop_tables = <<>>
    /\ allTags = {}
    /\ mega = <<>>
    /\ log = {}
    /\ output = None

IdleOptions ==
    /\ argv = <<>>
    /\ ignore_unknown = FALSE
    /\ ret = <<>>

\* A font file that holds a glyph order and no table.
BareFont(glyphOrder) == [glyphOrder |-> glyphOrder, tables |-> <<>>]

\* The state after line 377: glyphOrders holds each font's glyph order.
InitGlyphOrders ==
    /\ pc = "start"
    /\ error = NoError
    /\ \E orders \in {s \in SeqsUpTo(GlyphOrderPool, MaxFonts) : Len(s) >= 1} :
          /\ fontfiles = [k \in 1..Len(orders) |-> BareFont(orders[k])]
          /\ glyphOrders = orders
    /\ megaGlyphOrder = <<>>
    /\ IdleMerger
    /\ IdleOrchestrator
    /\ IdleOptions

MergeGlyphOrders ==
    /\ pc = "start"
    /\ megaGlyphOrder' = _mergeGlyphOrders(glyphOrders)
    /\ glyphOrders' = RenamedOrders(glyphOrders)
    /\ pc' = "done"
    /\ UNCHANGED <<error, tag, tables, merged, fontfiles, drop_tables, allTags,
                   mega, log, output, argv, ignore_unknown, ret>>

NextGlyphOrders == MergeGlyphOrders

SpecGlyphOrders == InitGlyphOrders /\ [][NextGlyphOrders]_vars

(***************************************************************************)
(* C2: after _mergeGlyphOrders, the returned sequence has as many names as *)
(* the inputs together, is the concatenation in font order of the lists    *)
(* left in glyphOrders, each of which holds the caller's names with '#'    *)
(* and the font's decimal index appended, and holds no name twice.         *)
(***************************************************************************)
C2_GlyphOrderUnified ==
    pc = "done" =>
        LET given == [k \in 1..Len(fontfiles) |-> fontfiles[k].glyphOrder] IN
        /\ Len(megaGlyphOrder) = SumLen(given)
        /\ megaGlyphOrder = Flatten(glyphOrders)
        /\ Len(glyphOrders) = Len(given)
        /\ \A k \in 1..Len(given) :
              /\ Len(glyphOrders[k]) = Len(given[k])
              /\ \A i \in 1..Len(given[k]) :
                    glyphOrders[k][i] = given[k][i] \o <<"#">> \o repr(k - 1)
        /\ NoDuplicates(megaGlyphOrder)

\* Font 0 holds "a#1" and font 1 holds "a", whose new name is "a#1".
C2_Witness ==
    /\ pc = "done"
    /\ Len(fontfiles) = 2
    /\ <<"a", "#", "1">> \in Range(fontfiles[1].glyphOrder)
    /\ <<"a">> \in Range(fontfiles[2].glyphOrder)
    /\ Len(megaGlyphOrder) = 4

(***************************************************************************)
(* The merge combinators, lines 32-52.  A policy names its combinator;     *)
(* the two lambdas are named by the constant they return.                  *)
(***************************************************************************)
RECURSIVE Max(_)
Max(lst) == IF Len(lst) = 1 THEN lst[1]
            ELSE LET m == Max(Tail(lst)) IN IF lst[1] >= m THEN lst[1] ELSE m

RECURSIVE Min(_)
Min(lst) == IF Len(lst) = 1 THEN lst[1]
            ELSE LET m == Min(Tail(lst)) IN IF lst[1] <= m THEN lst[1] ELSE m

RECURSIVE Sum(_)
Sum(lst) == IF lst = <<>> THEN 0 ELSE lst[1] + Sum(Tail(lst))

RECURSIVE BitOr(_, _)
BitOr(a, b) == IF a = 0 THEN b
               ELSE IF b = 0 THEN a
               ELSE (IF a % 2 = 1 \/ b % 2 = 1 THEN 1 ELSE 0)
                    + 2 * BitOr(a \div 2, b \div 2)

\* reduce(operator.or_, lst)
RECURSIVE bitwise_or(_)
bitwise_or(lst) == IF Len(lst) = 1 THEN lst[1]
                   ELSE BitOr(lst[1], bitwise_or(Tail(lst)))

equalNeverAsserts(lst) == TRUE

\* equal's assertion: every item equals the first.
equalHolds(lst) == \A i \in 1..Len(lst) : lst[i] = lst[1]

first(lst) == lst[1]

recalculate(lst) == first(lst)

\* Whether the combinator's own assertion fails on lst.
CombinatorAsserts(comb, lst) ==
    \/ comb = "equal" /\ ~equalHolds(lst)
    \/ comb = "ignore"

\* The combinator's value on lst, where its assertion holds.
CombinatorValue(comb, lst, now) ==
    CASE comb = "equal" -> first(lst)
      [] comb = "first" -> first(lst)
      [] comb = "recalculate" -> recalculate(lst)
      [] comb = "current_time" -> now
      [] comb = "bitwise_or" -> bitwise_or(lst)
      [] comb = "max" -> Max(lst)
      [] comb = "min" -> Min(lst)
      [] comb = "sum" -> Sum(lst)
      [] comb = "lambda_2" -> 2
      [] comb = "lambda_0" -> 0

(***************************************************************************)
(* The policies (logic) of the scalar-table mergers, lines 56-151.         *)
(***************************************************************************)
maxpLogic ==
    ("*" :> "max") @@
    [ tableVersion |-> "equal",
      numGlyphs |-> "sum",
      maxStorage |-> "max",
      maxFunctionDefs |-> "sum",
      maxInstructionDefs |-> "sum" ]

headLogic ==
    [ tableVersion |-> "max",
      fontRevision |-> "max",
      checkSumAdjustment |-> "recalculate",
      magicNumber |-> "equal",
      flags |-> "first",
      unitsPerEm |-> "equal",
      created |-> "current_time",
      modified |-> "current_time",
      xMin |-> "min",
      yMin |-> "min",
      xMax |-> "max",
      yMax |-> "max",
      macStyle |-> "first",
      lowestRecPPEM |-> "max",
      fontDirectionHint |-> "lambda_2",
      indexToLocFormat |-> "recalculate",
      glyphDataFormat |-> "equal" ]

hheaLogicMinAscent ==
    ("*" :> "equal") @@
    [ tableVersion |-> "max", ascent |-> "min", descent |-> "min",
      lineGap |-> "max", advanceWidthMax |-> "max",
      minLeftSideBearing |-> "min", minRightSideBearing |-> "min",
      xMaxExtent |-> "max", caretSlopeRise |-> "first",
      caretSlopeRun |-> "first", caretOffset |-> "first",
      numberOfHMetrics |-> "recalculate" ]

hheaLogic ==
    ("*" :> "equal") @@
    [ tableVersion |-> "max",
      ascent |-> "max",
      descent |-> "min",
      lineGap |-> "max",
      advanceWidthMax |-> "max",
      minLeftSideBearing |-> "min",
      minRightSideBearing |-> "min",
      xMaxExtent |-> "max",
      caretSlopeRise |-> "first",
      caretSlopeRun |-> "first",
      caretOffset |-> "first",
      numberOfHMetrics |-> "recalculate" ]

OS2Logic ==
    ("*" :> "first") @@
    [ version |-> "max",
      xAvgCharWidth |-> "recalculate",
      fsType |-> "first",
      panose |-> "first",
      ulUnicodeRange1 |-> "bitwise_or",
      ulUnicodeRange2 |-> "bitwise_or",
      ulUnicodeRange3 |-> "bitwise_or",
      ulUnicodeRange4 |-> "bitwise_or",
      fsFirstCharIndex |-> "min",
      fsLastCharIndex |-> "max",
      sTypoAscender |-> "max",
      sTypoDescender |-> "min",
      sTypoLineGap |-> "max",
      usWinAscent |-> "max",
      usWinDescent |-> "max",
      ulCodePageRange1 |-> "bitwise_or",
      ulCodePageRange2 |-> "bitwise_or",
      usMaxContex |-> "max" ]

postLogic ==
    ("*" :> "first") @@
    [ formatType |-> "max",
      isFixedPitch |-> "min",
      minMemType42 |-> "max",
      maxMemType42 |-> "lambda_0",
      minMemType1 |-> "max",
      maxMemType1 |-> "lambda_0",
      mapping |-> "ignore",
      extraNames |-> "ignore" ]

ScalarKinds == {"maxp", "head", "hhea", "OS/2", "post"}

Logic(kind) ==
    CASE kind = "maxp" -> maxpLogic
      [] kind = "head" -> headLogic
      [] kind = "hhea" -> hheaLogic
      [] kind = "OS/2" -> OS2Logic
      [] kind = "post" -> postLogic

(***************************************************************************)
(* Merger._mergeKeys, lines 428-439.  A source table is the function from  *)
(* its attribute names (vars(table)) to their values.                      *)
(***************************************************************************)
\* logic['tableTag'] = equal
WithTableTag(logic) == ("tableTag" :> "equal") @@ logic

allKeys(tbls) == UNION {DOMAIN tbls[k] : k \in 1..Len(tbls)}

\* try: logic[key]  except KeyError: logic['*']; "KeyError" when that fails too.
merge_logic(logic, key) ==
    IF key \in DOMAIN logic THEN logic[key]
    ELSE IF "*" \in DOMAIN logic THEN logic["*"]
    ELSE "KeyError"

\* [getattr(table, key) for table in self.tables], where every table has key.
KeyValues(tbls, key) == [k \in 1..Len(tbls) |-> tbls[k][key]]

\* What the loop body raises on key, if anything.
KeyRaises(tbls, logic, key) ==
    LET comb == merge_logic(WithTableTag(logic), key) IN
    IF comb = "KeyError" THEN {"KeyError"}
    ELSE IF comb = "ignore" THEN {}
    ELSE IF \E k \in 1..Len(tbls) : key \notin DOMAIN tbls[k]
         THEN {"AttributeError"}
    ELSE IF CombinatorAsserts(comb, KeyValues(tbls, key))
         THEN {"AssertionError"}
    ELSE {}

\* The exceptions _mergeKeys can leave with: the keys are visited in set
\* order, so any key whose body raises may be the first one visited.
_mergeKeysErrors(tbls, logic, t) ==
    UNION {{Raise(e, t, key) : e \in KeyRaises(tbls, logic, key)} :
           key \in allKeys(tbls)}

\* The attributes set on return_table when no key raises.
_mergeKeys(tbls, logic, now) ==
    LET lg == WithTableTag(logic)
        kept == {key \in allKeys(tbls) : merge_logic(lg, key) # "ignore"}
    IN  [key \in kept |->
            CombinatorValue(merge_logic(lg, key), KeyValues(tbls, key), now)]

(***************************************************************************)
(* The merge methods of the scalar tables.  A merge method's outcome is    *)
(* [status, table, errors]: "merged" (it returned True) with the table it  *)
(* built, "dropped" (it returned False), or "raised" with the exceptions   *)
(* it can leave with.                                                      *)
(***************************************************************************)
Merged(table) == [status |-> "merged", table |-> table, errors |-> {}]

Dropped == [status |-> "dropped", table |-> None, errors |-> {}]

Raised(errors) == [status |-> "raised", table |-> None, errors |-> errors]

\* dict.update: the entries of d2 replace those of d1.
Update(d1, d2) == d2 @@ d1

RECURSIVE UpdateAll(_)
UpdateAll(dicts) ==
    IF dicts = <<>> THEN <<>>
    ELSE Update(UpdateAll(SubSeq(dicts, 1, Len(dicts) - 1)), dicts[Len(dicts)])

\* maxp, head, hhea, OS/2: m._mergeKeys(self, logic); return True
scalar_merge(kind, tbls, now) ==
    LET errs == _mergeKeysErrors(tbls, Logic(kind), kind) IN
    IF errs # {} THEN Raised(errs)
    ELSE Merged(_mergeKeys(tbls, Logic(kind), now))

\* [table.mapping for table in m.tables if hasattr(table, 'mapping')]
RECURSIVE MappingsOf(_)
MappingsOf(tbls) ==
    IF tbls = <<>> THEN <<>>
    ELSE (IF "mapping" \in DOMAIN Head(tbls)
          THEN <<Head(tbls)["mapping"]>> ELSE <<>>) \o MappingsOf(Tail(tbls))

\* post: the mapping of every table that has one, then extraNames = [].
post_merge(tbls, now) ==
    LET errs == _mergeKeysErrors(tbls, postLogic, "post") IN
    IF errs # {} THEN Raised(errs)
    ELSE Merged([mapping |-> UpdateAll(MappingsOf(tbls)), extraNames |-> <<>>]
                @@ _mergeKeys(tbls, postLogic, now))


(***************************************************************************)
(* The merge methods of the structural tables, lines 160-275.  A table     *)
(* made by clazz(tag) holds its tableTag and what merge sets on it.        *)
(***************************************************************************)
FreshTable(t) == [tableTag |-> t]

\* vmtx, hmtx: self.metrics.update(table.metrics), table by table.
metrics_merge(t, tbls) ==
    Merged([metrics |-> UpdateAll([k \in 1..Len(tbls) |-> tbls[k].metrics])]
           @@ FreshTable(t))

\* loca: return True
loca_merge(tbls) == Merged(FreshTable("loca"))

\* g.removeHinting(), and g.expand(table) for a composite glyph.
PrepareGlyph(g) ==
    [g EXCEPT !.hinted = FALSE, !.expanded = g.expanded \/ g.composite]

PreparedGlyphs(table) ==
    [name \in DOMAIN table.glyphs |-> PrepareGlyph(table.glyphs[name])]

glyf_merge(tbls) ==
    Merged([glyphs |-> UpdateAll([k \in 1..Len(tbls) |-> PreparedGlyphs(tbls[k])])]
           @@ FreshTable("glyf"))

hinting_mergeReturnsTrue(tbls) == Merged(FreshTable("prep"))

\* prep, fpgm, 'cvt ': return False
hinting_merge(tbls) == Dropped


cmapSelected(t) == t.platformID = 3 /\ t.platEncID \in {1, 10}

cmapTablesOf(tbls) ==
    Flatten([k \in 1..Len(tbls) |-> SelectSeq(tbls[k].tables, cmapSelected)])

cmapUpdateFirstWins(subtables) ==
    UpdateAll([j \in 1..Len(subtables) |->
                  subtables[Len(subtables) + 1 - j].cmap])

\* for table in cmapTables: cmapTable.cmap.update(table.cmap)
cmapUpdate(subtables) ==
    UpdateAll([j \in 1..Len(subtables) |-> subtables[j].cmap])

cmap_merge(tbls) ==
    LET cmapTables == cmapTablesOf(tbls) IN
    IF \E j \in 1..Len(cmapTables) : cmapTables[j].format \notin {4, 12}
    THEN Raised({Raise("AssertionError", "cmap", "format")})
    ELSE IF cmapTables = <<>>
    THEN Raised({Raise("ValueError", "cmap", "format")})   \* max() of nothing
    ELSE Merged(
           [ tableVersion |-> 0,
             tables |-> << [ format |-> Max([j \in 1..Len(cmapTables) |->
                                                cmapTables[j].format]),
                             platformID |-> 3,
                             platEncID |-> Max([j \in 1..Len(cmapTables) |->
                                                   cmapTables[j].platEncID]),
                             language |-> 0,
                             cmap |-> cmapUpdate(cmapTables) ] >>,
             numSubTables |-> 1 ] @@ FreshTable("cmap"))

\* The GDEF tables that have the substructure (a table object is true).
Having(tbls, field) ==
    SelectSeq([k \in 1..Len(tbls) |-> tbls[k].table[field]],
              LAMBDA sub : sub # None)

GDEFListFirstOnly(tbls, field, records) ==
    LET subs == Having(tbls, field) IN
    IF subs = <<>> THEN None
    ELSE (records :> subs[1][records]) @@
         [ Coverage |-> [glyphs |-> subs[1].Coverage.glyphs],
           GlyphCount |-> Len(subs[1][records]) ]

\* LigCaretList (records: LigGlyph) and AttachList (records: AttachPoint).
GDEFList(tbls, field, records) ==
    LET subs == Having(tbls, field)
        recs == Flatten([j \in 1..Len(subs) |-> subs[j][records]])
    IN  IF subs = <<>> THEN None
        ELSE (records :> recs) @@
             [ Coverage |-> [glyphs |-> Flatten([j \in 1..Len(subs) |->
                                                    subs[j].Coverage.glyphs])],
               GlyphCount |-> Len(recs) ]

\* MarkAttachClassDef and GlyphClassDef.
GDEFClassDef(tbls, field) ==
    LET subs == Having(tbls, field) IN
    IF subs = <<>> THEN None
    ELSE [classDefs |-> UpdateAll([j \in 1..Len(subs) |-> subs[j].classDefs])]

GDEF_merge(tbls) ==
    Merged([ table |-> [ Version |-> 1,
                         LigCaretList |-> GDEFList(tbls, "LigCaretList", "LigGlyph"),
                         MarkAttachClassDef |-> GDEFClassDef(tbls, "MarkAttachClassDef"),
                         GlyphClassDef |-> GDEFClassDef(tbls, "GlyphClassDef"),
                         AttachList |-> GDEFList(tbls, "AttachList", "AttachPoint") ] ]
           @@ FreshTable("GDEF"))

(***************************************************************************)
(* The table classes that were given a merge method, and the method.       *)
(***************************************************************************)
HintingTags == {"prep", "fpgm", "cvt "}

MergeableTags ==
    ScalarKinds \cup {"vmtx", "hmtx", "loca", "glyf", "cmap", "GDEF"}
                \cup HintingTags

\* hasattr(clazz, 'merge')
hasMerge(t) == t \in MergeableTags

table_merge(t, tbls, now) ==
    CASE t \in {"maxp", "head", "hhea", "OS/2"} -> scalar_merge(t, tbls, now)
      [] t = "post" -> post_merge(tbls, now)
      [] t \in {"vmtx", "hmtx"} -> metrics_merge(t, tbls)
      [] t = "loca" -> loca_merge(tbls)
      [] t = "glyf" -> glyf_merge(tbls)
      [] t \in HintingTags -> hinting_merge(tbls)
      [] t = "cmap" -> cmap_merge(tbls)
      [] t = "GDEF" -> GDEF_merge(tbls)

\* time.time() - mac_epoch_diff, as current_time reads it.
NowValues == {7, 8}

(***************************************************************************)
(* One merge method on its own: table.merge(self) with self.tables set.    *)
(***************************************************************************)
UnchangedButMerger ==
    UNCHANGED <<glyphOrders, megaGlyphOrder, tag, tables, fontfiles,
                drop_tables, allTags, mega, log, output, argv, ignore_unknown, ret>>

MergeReturnsTrue ==
    /\ pc = "start"
    /\ \E now \in NowValues :
         LET r == table_merge(tag, tables, now) IN
         /\ r.status = "merged"
         /\ merged' = r.table
    /\ pc' = "done"
    /\ error' = error
    /\ UnchangedButMerger

MergeRaises ==
    /\ pc = "start"
    /\ \E now \in NowValues :
         LET r == table_merge(tag, tables, now) IN
         /\ r.status = "raised"
         /\ \E e \in r.errors : error' = e
    /\ pc' = "done"
    /\ merged' = merged
    /\ UnchangedButMerger

InitMerger(t, pool) ==
    /\ pc = "start"
    /\ error = NoError
    /\ tag = t
    /\ tables \in {s \in SeqsUpTo(pool, MaxSources) : Len(s) >= 1}
    /\ merged = None
    /\ IdleUnifier
    /\ IdleOrchestrator
    /\ IdleOptions
    /\ fontfiles = <<>>


(***************************************************************************)
(* The scalar-table mergers on their own.  A source table of the pool      *)
(* holds its tableTag, the kind's fields named below (the 'equal' ones     *)
(* with the values e and e2, the others with v), an optional listed field, *)
(* and, when u # 0, a field the kind's policy does not list.               *)
(***************************************************************************)
Shape(kind) ==
    CASE kind = "maxp" ->
           [ equal |-> {"tableVersion"}, equal2 |-> {},
             sample |-> {"numGlyphs", "maxStorage"},
             optional |-> "maxFunctionDefs", unlisted |-> "maxPoints" ]
      [] kind = "head" ->
           [ equal |-> {"magicNumber"}, equal2 |-> {"unitsPerEm"},
             sample |-> {"xMin", "yMax", "created", "fontDirectionHint",
                         "checkSumAdjustment", "flags"},
             optional |-> "lowestRecPPEM", unlisted |-> "unlistedField" ]
      [] kind = "hhea" ->
           [ equal |-> {}, equal2 |-> {},
             sample |-> {"ascent", "descent", "caretSlopeRise",
                         "numberOfHMetrics"},
             optional |-> "caretOffset", unlisted |-> "metricDataFormat" ]
      [] kind = "OS/2" ->
           [ equal |-> {}, equal2 |-> {},
             sample |-> {"version", "ulUnicodeRange1", "fsType",
                         "sTypoDescender"},
             optional |-> "usMaxContex", unlisted |-> "achVendID" ]
      [] kind = "post" ->
           [ equal |-> {}, equal2 |-> {},
             sample |-> {"formatType", "isFixedPitch", "maxMemType42"},
             optional |-> "mapping", unlisted |-> "italicAngle" ]

MkScalar(kind, v, e, e2, hasOptional, u) ==
    LET sh == Shape(kind)
        fields == {"tableTag"} \cup sh.equal \cup sh.equal2 \cup sh.sample
                  \cup (IF hasOptional THEN {sh.optional} ELSE {})
                  \cup (IF u # 0 THEN {sh.unlisted} ELSE {})
    IN  [f \in fields |->
            CASE f = "tableTag" -> kind
              [] f \in sh.equal -> e
              [] f \in sh.equal2 -> e2
              [] f = sh.unlisted -> u
              [] f = "mapping" -> (<<"a">> :> v)
              [] OTHER -> v]

ScalarPool(kind) ==
    {MkScalar(kind, v, e, e2, o, u) :
        v \in {1, 2}, e \in {1, 2}, e2 \in {1, 2}, o \in BOOLEAN, u \in {0, 1, 2}}

InitKeys == \E kind \in ScalarKinds : InitMerger(kind, ScalarPool(kind))

NextKeys == MergeReturnsTrue \/ MergeRaises

SpecKeys == InitKeys /\ [][NextKeys]_vars

\* The fields of the source tables that the kind's policy does not list.
UnlistedKeys == allKeys(tables) \ (DOMAIN Logic(tag) \cup {"tableTag"})

(***************************************************************************)
(* C7: the policy of every scalar-table merger holds the wildcard '*', so  *)
(* that a field of some source table that the policy does not list is      *)
(* resolved through the wildcard, and _mergeKeys never leaves with the     *)
(* KeyError of the policy lookup.                                          *)
(***************************************************************************)
C7_WildcardAlways ==
    (pc = "done" /\ tag \in ScalarKinds /\ UnlistedKeys # {}) =>
        /\ "*" \in DOMAIN Logic(tag)
        /\ error.type # "KeyError"


(***************************************************************************)
(* The cmap merger on its own.  At most MaxSubtables subtables in all,     *)
(* spread over the source tables; subtable j of source font n maps its     *)
(* code points to a glyph named after j and renamed for font n.            *)
(***************************************************************************)
CodePoints == {97, 98}

\* <<platformID, platEncID, format>>
SubtableKinds == { <<3, 1, 4>>, <<3, 10, 12>>, <<3, 1, 6>>, <<1, 0, 6>>, <<3, 0, 4>> }

SlotOptions == SubtableKinds \X { {97}, {97, 98} }

Letters == <<"a", "b", "c", "d", "e">>

GlyphOfSlot(n, j) == Rename(<<Letters[j]>>, n)

MkSubtable(slot, n, j) ==
    [ platformID |-> slot[1][1],
      platEncID |-> slot[1][2],
      format |-> slot[1][3],
      language |-> 0,
      cmap |-> [c \in slot[2] |-> GlyphOfSlot(n, j)] ]

MkCmap(subtables) ==
    [ tableTag |-> "cmap", tableVersion |-> 0, tables |-> subtables,
      numSubTables |-> Len(subtables) ]

\* The source tables made of the slots of flat, cut at cuts[1] <= cuts[2] ...
CmapSources(flat, cuts) ==
    LET N == Len(cuts) + 1
        lo(k) == IF k = 1 THEN 0 ELSE cuts[k - 1]
        hi(k) == IF k = N THEN Len(flat) ELSE cuts[k]
    IN  [k \in 1..N |->
            MkCmap([j \in 1..(hi(k) - lo(k)) |->
                       MkSubtable(flat[lo(k) + j], k - 1, j)])]

InitCmap ==
    /\ pc = "start"
    /\ error = NoError
    /\ tag = "cmap"
    /\ \E flat \in SeqsUpTo(SlotOptions, MaxSubtables), N \in 1..MaxSources :
         \E cuts \in [1..(N - 1) -> 0..Len(flat)] :
            /\ \A i \in 1..(N - 2) : cuts[i] <= cuts[i + 1]
            /\ tables = CmapSources(flat, cuts)
    /\ merged = None
    /\ IdleUnifier
    /\ IdleOrchestrator
    /\ IdleOptions
    /\ fontfiles = <<>>

NextCmap == MergeReturnsTrue \/ MergeRaises

SpecCmap == InitCmap /\ [][NextCmap]_vars

\* The places <<k, j>> of the selected subtables, and their source order.
SelectedPlaces ==
    {p \in (1..Len(tables)) \X (1..MaxSubtables + 1) :
        /\ p[2] <= Len(tables[p[1]].tables)
        /\ tables[p[1]].tables[p[2]].platformID = 3
        /\ tables[p[1]].tables[p[2]].platEncID \in {1, 10}}

SubtableAt(p) == tables[p[1]].tables[p[2]]

Before(p, q) == p[1] < q[1] \/ (p[1] = q[1] /\ p[2] < q[2])

\* The selected subtables that map code point c.
Holders(c) == {p \in SelectedPlaces : c \in DOMAIN SubtableAt(p).cmap}

(***************************************************************************)
(* C4: when at least one subtable is selected (platformID 3, platEncID 1   *)
(* or 10) and every selected one has format 4 or 12, the merged cmap has   *)
(* exactly one subtable; it maps a code point to the glyph of the last     *)
(* selected subtable, in source order, that maps it, and maps no code      *)
(* point that no selected subtable maps; its format is the largest format  *)
(* of the selected subtables.                                              *)
(***************************************************************************)
C4_CmapMerged ==
    ( /\ pc = "done"
      /\ tag = "cmap"
      /\ SelectedPlaces # {}
      /\ \A p \in SelectedPlaces : SubtableAt(p).format \in {4, 12} )
    =>
    /\ error = NoError
    /\ merged # None
    /\ Len(merged.tables) = 1
    /\ merged.numSubTables = 1
    /\ LET out == merged.tables[1] IN
       /\ \A c \in CodePoints :
            IF Holders(c) = {} THEN c \notin DOMAIN out.cmap
            ELSE /\ c \in DOMAIN out.cmap
                 /\ \E p \in Holders(c) :
                       /\ \A q \in Holders(c) : q = p \/ Before(q, p)
                       /\ out.cmap[c] = SubtableAt(p).cmap[c]
       /\ DOMAIN out.cmap \subseteq CodePoints
       /\ \A p \in SelectedPlaces : out.format >= SubtableAt(p).format
       /\ \E p \in SelectedPlaces : out.format = SubtableAt(p).format

\* Two fonts map 97 in selected subtables of formats 4 and 12, the first
\* font also in a subtable that is not selected; 98 is mapped once.
C4_Witness ==
    /\ pc = "done"
    /\ tag = "cmap"
    /\ error = NoError
    /\ Len(tables) = 2
    /\ Cardinality(SelectedPlaces) = 2
    /\ Cardinality(Holders(97)) = 2
    /\ Cardinality(Holders(98)) = 1
    /\ \E p, q \in SelectedPlaces :
          /\ p[1] = 1 /\ q[1] = 2
          /\ SubtableAt(p).format = 12 /\ SubtableAt(q).format = 4
    /\ \E j \in 1..Len(tables[1].tables) : <<1, j>> \notin SelectedPlaces
    /\ merged.tables[1].format = 12
    /\ merged.tables[1].cmap[97] = <<"a", "#", "1">>


(***************************************************************************)
(* The GDEF merger on its own.  Each of the four substructures of a source *)
(* table is None or present; a list substructure is present empty, with    *)
(* two glyphs and two records, or with two glyphs and one record.  The     *)
(* glyphs of source font n are renamed for font n; GlyphCount is the       *)
(* number of records, as read from the file.                               *)
(***************************************************************************)
ListFields == {"LigCaretList", "AttachList"}

ClassFields == {"MarkAttachClassDef", "GlyphClassDef"}

RecordsOf(field) == IF field = "LigCaretList" THEN "LigGlyph" ELSE "AttachPoint"

ListChoices == {"None", "empty", "aligned", "misaligned"}

ClassChoices == {"None", "classes"}

MkList(field, choice, n) ==
    LET cov == IF choice = "empty" THEN <<>>
               ELSE <<Rename(<<"a">>, n), Rename(<<"b">>, n)>>
        recs == CASE choice = "empty" -> <<>>
                  [] choice = "aligned" -> << <<RecordsOf(field), n, 1>>,
                                              <<RecordsOf(field), n, 2>> >>
                  [] OTHER -> << <<RecordsOf(field), n, 1>> >>
    IN  IF choice = "None" THEN None
        ELSE (RecordsOf(field) :> recs) @@
             [Coverage |-> [glyphs |-> cov], GlyphCount |-> Len(recs)]

MkClassDef(choice, n) ==
    IF choice = "None" THEN None
    ELSE [classDefs |-> (Rename(<<"a">>, n) :> 1) @@ (Rename(<<"b">>, n) :> n + 2)]

MkGDEF(ch, n) ==
    [ tableTag |-> "GDEF",
      table |-> [ Version |-> 1,
                  LigCaretList |-> MkList("LigCaretList", ch[1], n),
                  MarkAttachClassDef |-> MkClassDef(ch[2], n),
                  GlyphClassDef |-> MkClassDef(ch[3], n),
                  AttachList |-> MkList("AttachList", ch[4], n) ] ]

GDEFChoices == ListChoices \X ClassChoices \X ClassChoices \X ListChoices

InitGDEF ==
    /\ pc = "start"
    /\ error = NoError
    /\ tag = "GDEF"
    /\ \E N \in 1..MaxSources : \E ch \in [1..N -> GDEFChoices] :
          tables = [k \in 1..N |-> MkGDEF(ch[k], k - 1)]
    /\ merged = None
    /\ IdleUnifier
    /\ IdleOrchestrator
    /\ IdleOptions
    /\ fontfiles = <<>>

NextGDEF == MergeReturnsTrue

SpecGDEF == InitGDEF /\ [][NextGDEF]_vars

\* The source tables that have the substructure.
SourcesHaving(field) == {k \in 1..Len(tables) : tables[k].table[field] # None}

RECURSIVE SumOver(_, _, _)
SumOver(S, field, part) ==
    IF S = {} THEN 0
    ELSE LET k == CHOOSE x \in S : TRUE
             sub == tables[k].table[field]
             len == IF part = "Coverage" THEN Len(sub.Coverage.glyphs)
                    ELSE Len(sub[part])
         IN  len + SumOver(S \ {k}, field, part)

\* Where source k's part of a substructure starts in the merged list.
Offset(k, field, part) ==
    SumOver({x \in SourcesHaving(field) : x < k}, field, part)

(***************************************************************************)
(* C5: in the merged GDEF each substructure that no source has is None;    *)
(* one that exactly one source has equals that source's; the coverage      *)
(* glyphs and the records of a list substructure are the source-order      *)
(* concatenations over the sources that have it, GlyphCount is the number  *)
(* of merged records, and coverage and records stay aligned when they were *)
(* in every source.                                                        *)
(***************************************************************************)
C5_GDEFMerged ==
    (pc = "done" /\ tag = "GDEF") =>
    /\ error = NoError
    /\ merged # None
    /\ \A field \in ListFields \cup ClassFields :
         LET having == SourcesHaving(field)
             out == merged.table[field]
         IN  /\ having = {} => out = None
             /\ having # {} => out # None
             /\ \A k \in having : having = {k} =>
                  IF field \in ClassFields
                  THEN out.classDefs = tables[k].table[field].classDefs
                  ELSE /\ out.Coverage.glyphs = tables[k].table[field].Coverage.glyphs
                       /\ out[RecordsOf(field)] = tables[k].table[field][RecordsOf(field)]
                       /\ out.GlyphCount = tables[k].table[field].GlyphCount
    /\ \A field \in ListFields :
         LET having == SourcesHaving(field)
             recs == RecordsOf(field)
             out == merged.table[field]
         IN  having # {} =>
             /\ Len(out.Coverage.glyphs) = SumOver(having, field, "Coverage")
             /\ Len(out[recs]) = SumOver(having, field, recs)
             /\ out.GlyphCount = Len(out[recs])
             /\ \A k \in having :
                  LET src == tables[k].table[field] IN
                  /\ \A i \in 1..Len(src.Coverage.glyphs) :
                        out.Coverage.glyphs[Offset(k, field, "Coverage") + i]
                            = src.Coverage.glyphs[i]
                  /\ \A i \in 1..Len(src[recs]) :
                        out[recs][Offset(k, field, recs) + i] = src[recs][i]
             /\ (\A k \in having :
                    Len(tables[k].table[field].Coverage.glyphs)
                        = Len(tables[k].table[field][recs]))
                => /\ Len(out.Coverage.glyphs) = Len(out[recs])
                   /\ \A k \in having :
                        Offset(k, field, "Coverage") = Offset(k, field, recs)

\* Both sources have an aligned LigCaretList, one only has an AttachList,
\* none has a GlyphClassDef.
C5_Witness ==
    /\ pc = "done"
    /\ tag = "GDEF"
    /\ Len(tables) = 2
    /\ SourcesHaving("LigCaretList") = {1, 2}
    /\ SourcesHaving("AttachList") = {2}
    /\ SourcesHaving("GlyphClassDef") = {}
    /\ SourcesHaving("MarkAttachClassDef") = {1}
    /\ merged.table.LigCaretList.GlyphCount = 4
    /\ Len(merged.table.LigCaretList.Coverage.glyphs) = 4
    /\ merged.table.GlyphClassDef = None


(***************************************************************************)
(* Options.parse_opts, lines 296-354.  An argument is a sequence of        *)
(* characters.  ignore_unknown is [bool |-> b] or [names |-> collection];  *)
(* a list item is [str |-> characters] or [int |-> n].  In this part of    *)
(* the model drop_tables is the list self.drop_tables of such items.       *)
(***************************************************************************)
Str(chars) == [str |-> chars]

_drop_tables_default ==
    << Str(<<"f", "p", "g", "m">>), Str(<<"p", "r", "e", "p">>),
       Str(<<"c", "v", "t", " ">>), Str(<<"g", "a", "s", "p">>) >>

\* The attributes the class body gives an Options object.
OptionsAttributes ==
    { <<"U","n","k","n","o","w","n","O","p","t","i","o","n","E","r","r","o","r">>,
      <<"_","d","r","o","p","_","t","a","b","l","e","s","_","d","e","f","a","u","l","t">>,
      <<"d","r","o","p","_","t","a","b","l","e","s">>,
      <<"_","_","i","n","i","t","_","_">>,
      <<"s","e","t">>,
      <<"p","a","r","s","e","_","o","p","t","s">> }

ListAttributes ==
    { <<"_","d","r","o","p","_","t","a","b","l","e","s","_","d","e","f","a","u","l","t">>,
      <<"d","r","o","p","_","t","a","b","l","e","s">> }

hasattr(k) == k \in OptionsAttributes

startswith(a, prefix) ==
    Len(a) >= Len(prefix) /\ SubSeq(a, 1, Len(prefix)) = prefix

\* a[n:]
From(a, n) == SubSeq(a, n + 1, Len(a))

\* a.find(ch): the 0-based index of the first ch, or -1.
find(a, ch) ==
    IF \E i \in 1..Len(a) : a[i] = ch
    THEN (CHOOSE i \in 1..Len(a) : a[i] = ch /\ \A j \in 1..(i - 1) : a[j] # ch) - 1
    ELSE -1

replace(k, old, new) == [i \in 1..Len(k) |-> IF k[i] = old THEN new ELSE k[i]]

\* v.split(','): never empty; ''.split(',') is [''].
RECURSIVE split(_, _)
split(v, sep) ==
    LET i == find(v, sep) IN
    IF i = -1 THEN <<v>>
    ELSE <<SubSeq(v, 1, i)>> \o split(From(v, i + 1), sep)

IsDigit(ch) == \E d \in 1..10 : DigitChars[d] = ch

DigitValue(ch) == (CHOOSE d \in 1..10 : DigitChars[d] = ch) - 1

\* int(x, 0) of a decimal literal; any other x that starts with a digit and
\* holds a character that is no digit is no literal (ValueError).  A literal
\* with a base prefix or a leading zero is not among the arguments drawn.
IsLiteral(x) == /\ \A i \in 1..Len(x) : IsDigit(x[i])
                /\ (Len(x) = 1 \/ x[1] # "0")

RECURSIVE int(_)
int(x) == IF Len(x) = 1 THEN DigitValue(x[1])
          ELSE 10 * int(SubSeq(x, 1, Len(x) - 1)) + DigitValue(x[Len(x)])

\* len(x) and x[0] in "0123456789"
StartsWithDigit(x) == Len(x) > 0 /\ IsDigit(x[1])

\* [int(x, 0) if len(x) and x[0] in "0123456789" else x for x in vv]
Items(vv) ==
    [i \in 1..Len(vv) |->
        IF StartsWithDigit(vv[i]) THEN [int |-> int(vv[i])] ELSE Str(vv[i])]

\* for x in vv: if x in v: v.remove(x)
RECURSIVE RemoveFirst(_, _)
RemoveFirst(v, x) ==
    IF v = <<>> THEN <<>>
    ELSE IF Head(v) = x THEN Tail(v)
    ELSE <<Head(v)>> \o RemoveFirst(Tail(v), x)

RECURSIVE RemoveEach(_, _)
RemoveEach(v, vv) ==
    IF vv = <<>> THEN v ELSE RemoveEach(RemoveFirst(v, Head(vv)), Tail(vv))

\* Lines 304-320: the option's name k, its operator and its value v.
ParsedFlag(a) ==
    LET body == From(a, 2)
        i == find(body, "=")
        k0 == SubSeq(body, 1, i)
        hasOp == i > 0 /\ k0[Len(k0)] \in {"-", "+"}
        k == IF i = -1
             THEN (IF startswith(body, <<"n", "o", "-">>) THEN From(body, 3) ELSE body)
             ELSE (IF hasOp THEN SubSeq(k0, 1, Len(k0) - 1) ELSE k0)
    IN  [ indexError |-> i = 0,                 \* k[-1] of an empty k
          k |-> replace(k, "-", "_"),
          op |-> IF i > 0 /\ hasOp THEN k0[Len(k0)] ELSE "",
          hasValue |-> i # -1,
          v |-> IF i = -1 THEN <<>> ELSE From(body, i + 1) ]

OptionName(a) == ParsedFlag(a).k

IsFlag(a) == startswith(a, <<"-", "-">>)


IgnoredUnknown(iu, k) ==
    IF "bool" \in DOMAIN iu
    THEN (IF iu.bool THEN "yes" ELSE "TypeError")
    ELSE IF k \in iu.names THEN "yes" ELSE "no"

OptsError(st, type, k) == [st EXCEPT !.error = Raise(type, "", k)]

\* One pass of the loop body on argument a.  st.drop is the list object
\* self.drop_tables (extended and shortened in place), st.opts the keyword
\* arguments gathered for self.set: a new list of items, or (alias) the
\* list object ov itself.  The value kept for an attribute that is no list
\* is not part of the model's state.
ParseArg(st, a, iu) ==
    IF ~IsFlag(a) THEN [st EXCEPT !.ret = Append(st.ret, a)]
    ELSE
    LET f == ParsedFlag(a) IN
    IF f.indexError THEN OptsError(st, "IndexError", f.k)
    ELSE IF ~hasattr(f.k) THEN
        CASE IgnoredUnknown(iu, f.k) = "yes" -> [st EXCEPT !.ret = Append(st.ret, a)]
          [] IgnoredUnknown(iu, f.k) = "TypeError" -> OptsError(st, "TypeError", f.k)
          [] OTHER -> OptsError(st, "UnknownOptionError", f.k)
    ELSE IF f.k \notin ListAttributes
        THEN [st EXCEPT !.opts = (f.k :> [alias |-> FALSE, items |-> <<>>]) @@ st.opts]
    ELSE IF ~f.hasValue THEN OptsError(st, "AttributeError", f.k)  \* True.split
    ELSE
    LET vv0 == split(f.v, ",")
        vv == IF vv0 = << <<>> >> THEN <<>> ELSE vv0
    IN  IF \E i \in 1..Len(vv) : StartsWithDigit(vv[i]) /\ ~IsLiteral(vv[i])
        THEN OptsError(st, "ValueError", f.k)
        ELSE CASE f.op = "" ->
                    [st EXCEPT !.opts = (f.k :> [alias |-> FALSE, items |-> Items(vv)])
                                         @@ st.opts]
               [] f.op = "+" ->
                    [st EXCEPT !.drop = st.drop \o Items(vv),
                               !.opts = (f.k :> [alias |-> TRUE, items |-> <<>>])
                                        @@ st.opts]
               [] f.op = "-" ->
                    [st EXCEPT !.drop = RemoveEach(st.drop, Items(vv)),
                               !.opts = (f.k :> [alias |-> TRUE, items |-> <<>>])
                                        @@ st.opts]

\* for a in argv, left at the first exception.
RECURSIVE ParseArgs(_, _, _)
ParseArgs(st, args, iu) ==
    IF args = <<>> \/ st.error # NoError THEN st
    ELSE ParseArgs(ParseArg(st, Head(args), iu), Tail(args), iu)

\* self.set(**opts): drop_tables is the list given with '=', or the list
\* object itself after '+=' and '-='.
parse_opts(args, iu, drop) ==
    LET st == ParseArgs([ret |-> <<>>, opts |-> <<>>, drop |-> drop,
                         error |-> NoError], args, iu)
        key == <<"d","r","o","p","_","t","a","b","l","e","s">>
    IN  [ ret |-> IF st.error = NoError THEN st.ret ELSE <<>>,
          error |-> st.error,
          drop_tables |->
              IF st.error = NoError /\ key \in DOMAIN st.opts /\ ~st.opts[key].alias
              THEN st.opts[key].items ELSE st.drop ]

ArgPool ==
    { <<"f">>,
      <<"-", "-", "x">>,
      <<"-", "-", "n", "o", "-", "x">>,
      <<"-", "-", "x", "-", "y", "=", "1">>,
      <<"-","-","d","r","o","p","-","t","a","b","l","e","s","=","a",",","1">>,
      <<"-","-","d","r","o","p","-","t","a","b","l","e","s","+","=","a">>,
      <<"-","-","d","r","o","p","-","t","a","b","l","e","s","-","=","g","a","s","p">>,
      <<"-","-","d","r","o","p","-","t","a","b","l","e","s","=","1","a">>,
      <<"-","-","d","r","o","p","-","t","a","b","l","e","s">>,
      <<"-","-","d","r","o","p","_","t","a","b","l","e","s","=">> }

IgnoreUnknownPool ==
    { [bool |-> FALSE], [bool |-> TRUE], [names |-> {}],
      [names |-> {<<"x">>}], [names |-> {<<"x">>, <<"x", "_", "y">>}] }

InitOptions ==
    /\ pc = "start"
    /\ error = NoError
    /\ argv \in SeqsUpTo(ArgPool, MaxArgs)
    /\ ignore_unknown \in IgnoreUnknownPool
    /\ ret = <<>>
    /\ drop_tables = _drop_tables_default
    /\ allTags = {}
    /\ mega = <<>>
    /\ log = {}
    /\ output = None
    /\ IdleUnifier
    /\ IdleMerger
    /\ fontfiles = <<>>

UnchangedButOptions ==
    UNCHANGED <<glyphOrders, megaGlyphOrder, tag, tables, merged, fontfiles,
                allTags, mega, log, output, argv, ignore_unknown>>

ParseOptsReturns ==
    /\ pc = "start"
    /\ LET r == parse_opts(argv, ignore_unknown, drop_tables) IN
       /\ r.error = NoError
       /\ ret' = r.ret
       /\ drop_tables' = r.drop_tables
    /\ error' = error
    /\ pc' = "done"
    /\ UnchangedButOptions

ParseOptsRaises ==
    /\ pc = "start"
    /\ LET r == parse_opts(argv, ignore_unknown, drop_tables) IN
       /\ r.error # NoError
       /\ error' = r.error
       /\ drop_tables' = r.drop_tables
    /\ ret' = ret
    /\ pc' = "done"
    /\ UnchangedButOptions

NextOptions == ParseOptsReturns \/ ParseOptsRaises

SpecOptions == InitOptions /\ [][NextOptions]_vars

\* The places in argv of the flags whose name is no attribute of Options.
UnknownFlags ==
    {i \in 1..Len(argv) : IsFlag(argv[i]) /\ ~hasattr(OptionName(argv[i]))}

\* The arguments before place i are parsed without an exception.
ParsesBefore(i) ==
    parse_opts(SubSeq(argv, 1, i - 1), [bool |-> TRUE], _drop_tables_default).error
        = NoError

(***************************************************************************)
(* C8: when argv holds a '--' flag whose name is no attribute of Options   *)
(* (and nothing before it fails), parse_opts called with the default       *)
(* ignore_unknown, False, fails with UnknownOptionError; called with       *)
(* ignore_unknown True, or a collection that holds the flag's name, it     *)
(* does not fail on the flag and returns the flag, unchanged, in the       *)
(* leftover arguments.                                                     *)
(***************************************************************************)
C8_UnknownOptionFails ==
    pc = "done" =>
    \A i \in UnknownFlags :
        /\ (ignore_unknown = [bool |-> FALSE] /\ ParsesBefore(i))
              => error.type = "UnknownOptionError"
        /\ (\/ ignore_unknown = [bool |-> TRUE]
            \/ /\ "names" \in DOMAIN ignore_unknown
               /\ \A j \in UnknownFlags : OptionName(argv[j]) \in ignore_unknown.names)
              => /\ error.type \notin {"UnknownOptionError", "TypeError"}
                 /\ error = NoError => argv[i] \in Range(ret)


(***************************************************************************)
(* Font files, and what ttLib.TTFont does with them.  A font file holds a  *)
(* glyph order and tables; its tables name a glyph by its place in the     *)
(* glyph order (1 for the first glyph).  font[tag] gives the table with    *)
(* every glyph named by the glyph order the font has been given.           *)
(***************************************************************************)
TagChars ==
    ("OS/2" :> <<"O", "S", "/", "2">>) @@ ("cvt " :> <<"c", "v", "t", " ">>) @@
    [ cmap |-> <<"c", "m", "a", "p">>, hhea |-> <<"h", "h", "e", "a">>,
      head |-> <<"h", "e", "a", "d">>, hmtx |-> <<"h", "m", "t", "x">>,
      vmtx |-> <<"v", "m", "t", "x">>, glyf |-> <<"g", "l", "y", "f">>,
      loca |-> <<"l", "o", "c", "a">>, maxp |-> <<"m", "a", "x", "p">>,
      post |-> <<"p", "o", "s", "t">>, prep |-> <<"p", "r", "e", "p">>,
      fpgm |-> <<"f", "p", "g", "m">>, gasp |-> <<"g", "a", "s", "p">>,
      GDEF |-> <<"G", "D", "E", "F">>, name |-> <<"n", "a", "m", "e">> ]

\* "glyph%.5d" % glyphID, the name of a glyph the glyph order does not hold.
GlyphName(order, gid) ==
    IF gid \in 1..Len(order) THEN order[gid]
    ELSE LET d == repr(gid - 1) IN
         <<"g", "l", "y", "p", "h">> \o [i \in 1..(5 - Len(d)) |-> "0"] \o d

\* A mapping keyed by glyph, with each glyph named.
Rekey(f, order) ==
    [nm \in {GlyphName(order, g) : g \in DOMAIN f} |->
        f[CHOOSE g \in DOMAIN f : GlyphName(order, g) = nm]]

NameAll(gids, order) == [i \in 1..Len(gids) |-> GlyphName(order, gids[i])]

LoadList(sub, order) ==
    IF sub = None THEN None
    ELSE [sub EXCEPT !.Coverage.glyphs = NameAll(sub.Coverage.glyphs, order)]

LoadClassDef(sub, order) ==
    IF sub = None THEN None
    ELSE [sub EXCEPT !.classDefs = Rekey(sub.classDefs, order)]

\* font[t], the font having been given the glyph order `order`.
Load(t, filed, order) ==
    CASE t \in {"hmtx", "vmtx"} ->
           [filed EXCEPT !.metrics = Rekey(filed.metrics, order)]
      [] t = "glyf" -> [filed EXCEPT !.glyphs = Rekey(filed.glyphs, order)]
      [] t = "cmap" ->
           [filed EXCEPT !.tables =
               [j \in 1..Len(filed.tables) |->
                   [filed.tables[j] EXCEPT !.cmap =
                       [c \in DOMAIN filed.tables[j].cmap |->
                           GlyphName(order, filed.tables[j].cmap[c])]]]]
      [] t = "GDEF" ->
           [filed EXCEPT
               !.table.LigCaretList = LoadList(filed.table.LigCaretList, order),
               !.table.AttachList = LoadList(filed.table.AttachList, order),
               !.table.MarkAttachClassDef =
                   LoadClassDef(filed.table.MarkAttachClassDef, order),
               !.table.GlyphClassDef =
                   LoadClassDef(filed.table.GlyphClassDef, order)]
      [] OTHER -> filed

\* font.keys()
keys(font) == DOMAIN font.tables \cup {"GlyphOrder"}

(***************************************************************************)
(* The fonts drawn.  Every font has cmap and hhea: variant A maps U+0061   *)
(* and has ascent 800, variant B maps U+0062 and has ascent 900.  A pack   *)
(* adds tables.                                                            *)
(***************************************************************************)
Packs == {"plain", "head", "magic", "upem", "hinted", "outline", "maxp2",
          "layout", "dangling"}

GlyphCountOf(pack) == IF pack \in {"outline", "layout"} THEN 2 ELSE 1

FileHhea(asc) ==
    [ tableTag |-> "hhea", tableVersion |-> 1, ascent |-> asc, descent |-> -200,
      lineGap |-> 0, advanceWidthMax |-> 500, caretSlopeRise |-> 1,
      numberOfHMetrics |-> 1, metricDataFormat |-> 0 ]

FileCmap(cp) ==
    MkCmap(<< [ platformID |-> 3, platEncID |-> 1, format |-> 4, language |-> 0,
                cmap |-> (cp :> 1) ] >>)

FileMetrics(t, gids) == [tableTag |-> t, metrics |-> [g \in gids |-> <<500, 0>>]]

FileGlyf(n) ==
    [ tableTag |-> "glyf",
      glyphs |-> [g \in 1..n |->
                    [hinted |-> TRUE, composite |-> g = 2, expanded |-> FALSE]] ]

FileGDEF ==
    [ tableTag |-> "GDEF",
      table |-> [ Version |-> 1,
                  LigCaretList |->
                      [ Coverage |-> [glyphs |-> <<1, 2>>],
                        LigGlyph |-> << <<"LigGlyph", 1>>, <<"LigGlyph", 2>> >>,
                        GlyphCount |-> 2 ],
                  MarkAttachClassDef |-> None,
                  GlyphClassDef |-> [classDefs |-> (1 :> 1) @@ (2 :> 3)],
                  AttachList |-> None ] ]

Opaque(t) == [tableTag |-> t]

PackTables(pack) ==
    CASE pack = "head" -> [head |-> MkScalar("head", 1, 1, 1, TRUE, 0)]
      [] pack = "magic" -> [head |-> MkScalar("head", 1, 2, 1, TRUE, 0)]
      [] pack = "upem" -> [head |-> MkScalar("head", 1, 1, 2, TRUE, 0)]
      [] pack = "hinted" ->
           ("cvt " :> Opaque("cvt ")) @@
           [prep |-> Opaque("prep"), fpgm |-> Opaque("fpgm")]
      [] pack = "outline" ->
           [ glyf |-> FileGlyf(2), loca |-> Opaque("loca"),
             hmtx |-> FileMetrics("hmtx", {1, 2}),
             maxp |-> MkScalar("maxp", 2, 1, 1, TRUE, 0) ]
      [] pack = "maxp2" ->
           [ loca |-> Opaque("loca"),
             maxp |-> MkScalar("maxp", 2, 2, 1, TRUE, 0) ]
      [] pack = "layout" ->
           [ GDEF |-> FileGDEF, vmtx |-> FileMetrics("vmtx", {1, 2}),
             hmtx |-> FileMetrics("hmtx", {1, 2}), glyf |-> FileGlyf(2),
             name |-> Opaque("name") ]
      [] pack = "dangling" -> [hmtx |-> FileMetrics("hmtx", {1, 2})]
      [] OTHER -> <<>>

MkFont(variant, pack) ==
    [ glyphOrder |-> IF GlyphCountOf(pack) = 2 THEN << <<"a">>, <<"b">> >>
                     ELSE << <<"a">> >>,
      tables |->
          PackTables(pack) @@
          [ cmap |-> FileCmap(IF variant = "A" THEN 97 ELSE 98),
            hhea |-> FileHhea(IF variant = "A" THEN 800 ELSE 900) ] ]

FontPool == {MkFont("A", pack) : pack \in Packs} \cup {MkFont("B", "plain")}

DropOptions ==
    { _drop_tables_default, <<>>,
      <<Str(TagChars["loca"]), Str(TagChars["head"])>> }

(***************************************************************************)
(* Merger.merge, lines 369-412.                                            *)
(***************************************************************************)
\* tag in self.options.drop_tables
InDropTables(t) == Str(TagChars[t]) \in Range(drop_tables)

EveryFontHas(t) == \A k \in 1..Len(fontfiles) : t \in DOMAIN fontfiles[k].tables

\* [font[tag] for font in fonts], the fonts reloaded and given their
\* renamed glyph orders.
SourceTables(t) ==
    [k \in 1..Len(fontfiles) |-> Load(t, fontfiles[k].tables[t], glyphOrders[k])]

Skipped(status) == [status |-> status, table |-> None, errors |-> {}]

DispatchCollectsFirst(t, now) ==
    IF ~EveryFontHas(t) THEN Raised({Raise("KeyError", t, t)})
    ELSE IF InDropTables(t) THEN Skipped("Dropping")
    ELSE IF ~hasMerge(t) THEN Skipped("DontKnow")
    ELSE table_merge(t, SourceTables(t), now)

\* The loop body on tag t, lines 391-408.
Dispatch(t, now) ==
    IF InDropTables(t) THEN Skipped("Dropping")
    ELSE IF ~hasMerge(t) THEN Skipped("DontKnow")
    ELSE IF ~EveryFontHas(t) THEN Raised({Raise("KeyError", t, t)})
    ELSE table_merge(t, SourceTables(t), now)

Init ==
    /\ pc = "start"
    /\ error = NoError
    /\ fontfiles \in {s \in SeqsUpTo(FontPool, MaxFonts) : Len(s) >= 1}
    /\ drop_tables \in DropOptions
    /\ allTags = {}
    /\ mega = <<>>
    /\ log = {}
    /\ output = None
    /\ IdleUnifier
    /\ IdleMerger
    /\ IdleOptions

UnchangedButLoop ==
    UNCHANGED <<glyphOrders, megaGlyphOrder, tag, merged, fontfiles,
                drop_tables, output, argv, ignore_unknown, ret>>

\* Lines 371-388: the mega glyph order, the fonts reloaded with their new
\* glyph names, and the tags to visit.
UnifyGlyphOrders ==
    /\ pc = "start"
    /\ LET orders == [k \in 1..Len(fontfiles) |-> fontfiles[k].glyphOrder] IN
       /\ megaGlyphOrder' = _mergeGlyphOrders(orders)
       /\ glyphOrders' = RenamedOrders(orders)
    /\ allTags' = UNION {keys(fontfiles[k]) : k \in 1..Len(fontfiles)}
                    \ {"GlyphOrder"}
    /\ pc' = "dispatch"
    /\ UNCHANGED <<error, tag, tables, merged, fontfiles, drop_tables, mega,
                   log, output, argv, ignore_unknown, ret>>

Visit(t, message) ==
    /\ allTags' = allTags \ {t}
    /\ log' = log \cup {<<message, t>>}

\* if tag in self.options.drop_tables: continue
DropTag ==
    /\ pc = "dispatch"
    /\ \E t \in allTags, now \in NowValues :
          /\ Dispatch(t, now).status = "Dropping"
          /\ Visit(t, "Dropping")
    /\ UNCHANGED <<pc, error, tables, mega>>
    /\ UnchangedButLoop

\* if not hasattr(clazz, 'merge'): continue
NoMergeMethod ==
    /\ pc = "dispatch"
    /\ \E t \in allTags, now \in NowValues :
          /\ Dispatch(t, now).status = "DontKnow"
          /\ Visit(t, "DontKnow")
    /\ UNCHANGED <<pc, error, tables, mega>>
    /\ UnchangedButLoop

\* table.merge(self) is true: mega[tag] = table
MergeInstalls ==
    /\ pc = "dispatch"
    /\ \E t \in allTags, now \in NowValues :
          LET r == Dispatch(t, now) IN
          /\ r.status = "merged"
          /\ mega' = (t :> r.table) @@ mega
          /\ Visit(t, "Merged")
    /\ UNCHANGED <<pc, error, tables>>
    /\ UnchangedButLoop

\* table.merge(self) is false
MergeSkips ==
    /\ pc = "dispatch"
    /\ \E t \in allTags, now \in NowValues :
          /\ Dispatch(t, now).status = "dropped"
          /\ Visit(t, "DroppedNoNeed")
    /\ UNCHANGED <<pc, error, tables, mega>>
    /\ UnchangedButLoop

\* font[tag] or table.merge(self) raises: merge is left, self.tables is not
\* deleted if it had been set.
MergeFails ==
    /\ pc = "dispatch"
    /\ \E t \in allTags, now \in NowValues :
          LET r == Dispatch(t, now) IN
          /\ r.status = "raised"
          /\ \E e \in r.errors : error' = e
          /\ tables' = IF EveryFontHas(t) THEN SourceTables(t) ELSE tables
          /\ allTags' = allTags \ {t}
    /\ pc' = "done"
    /\ UNCHANGED <<mega, log>>
    /\ UnchangedButLoop

\* return mega
Return ==
    /\ pc = "dispatch"
    /\ allTags = {}
    /\ output' = [glyphOrder |-> megaGlyphOrder, tables |-> mega]
    /\ pc' = "done"
    /\ UNCHANGED <<error, glyphOrders, megaGlyphOrder, tag, tables, merged,
                   fontfiles, drop_tables, allTags, mega, log, argv,
                   ignore_unknown, ret>>

Next ==
    \/ UnifyGlyphOrders
    \/ DropTag
    \/ NoMergeMethod
    \/ MergeInstalls
    \/ MergeSkips
    \/ MergeFails
    \/ Return

Spec == Init /\ [][Next]_vars


(***************************************************************************)
(* Properties of Merger.merge.                                             *)
(***************************************************************************)
InputTags == UNION {DOMAIN fontfiles[k].tables : k \in 1..Len(fontfiles)}

\* The dispatch loop has visited tag t.
Visited(t) == pc # "start" /\ t \in InputTags /\ t \notin allTags

A0 == <<"a", "#", "0">>

A1 == <<"a", "#", "1">>

\* Font A (glyph "a", U+0061, ascent 800) and font B (glyph "a", U+0062,
\* ascent 900), each with one Windows-Unicode format-4 subtable, and alike
\* in everything else.
C1_Scenario ==
    /\ Len(fontfiles) = 2
    /\ \A k \in 1..2 :
         /\ fontfiles[k].glyphOrder = << <<"a">> >>
         /\ LET subs == fontfiles[k].tables["cmap"].tables IN
            /\ Len(subs) = 1
            /\ subs[1].platformID = 3 /\ subs[1].platEncID = 1
            /\ subs[1].format = 4
    /\ fontfiles[1].tables["cmap"].tables[1].cmap = (97 :> 1)
    /\ fontfiles[2].tables["cmap"].tables[1].cmap = (98 :> 1)
    /\ fontfiles[1].tables["hhea"].ascent = 800
    /\ fontfiles[2].tables["hhea"].ascent = 900
    /\ [fontfiles[1].tables EXCEPT !["cmap"] = None, !["hhea"].ascent = 0]
         = [fontfiles[2].tables EXCEPT !["cmap"] = None, !["hhea"].ascent = 0]

(***************************************************************************)
(* C1: merging font A and font B returns a font whose glyph order is       *)
(* "a#0", "a#1", whose cmap has one subtable, mapping 0x61 to "a#0" and    *)
(* 0x62 to "a#1" and nothing else, and whose hhea ascent is 900.           *)
(***************************************************************************)
C1_TwoSingleGlyphFonts ==
    (pc = "done" /\ C1_Scenario) =>
        /\ error = NoError
        /\ output # None
        /\ output.glyphOrder = <<A0, A1>>
        /\ Len(output.tables["cmap"].tables) = 1
        /\ output.tables["cmap"].tables[1].cmap = (97 :> A0) @@ (98 :> A1)
        /\ output.tables["hhea"].ascent = 900

C1_Witness ==
    /\ pc = "done"
    /\ C1_Scenario
    /\ output # None
    /\ DOMAIN output.tables = {"cmap", "hhea"}

\* The fields of the source tables of kind t whose policy is equal.
EqualKeys(t) ==
    {key \in allKeys([k \in 1..Len(fontfiles) |-> fontfiles[k].tables[t]]) :
        /\ \A k \in 1..Len(fontfiles) : key \in DOMAIN fontfiles[k].tables[t]
        /\ merge_logic(WithTableTag(Logic(t)), key) = "equal"}

(***************************************************************************)
(* C3: for a field whose policy is equal, of a table kind that the         *)
(* dispatch hands to its merger: if the source tables differ in the field  *)
(* the merge fails and Merger.merge returns no font, not even a partly     *)
(* assembled one; if they all hold one value the field does not fail and   *)
(* the merged table holds that value.                                      *)
(***************************************************************************)
C3_EqualPolicy ==
    /\ (error # NoError \/ pc # "done") => output = None
    /\ pc = "done" =>
         \A t \in ScalarKinds :
            (EveryFontHas(t) /\ ~InDropTables(t)) =>
            \A key \in EqualKeys(t) :
               LET vals == {fontfiles[k].tables[t][key] : k \in 1..Len(fontfiles)} IN
               IF Cardinality(vals) > 1
               THEN error # NoError /\ output = None
               ELSE /\ ~(error.tag = t /\ error.key = key)
                    /\ t \in DOMAIN mega => {mega[t][key]} = vals
                    /\ output # None => /\ t \in DOMAIN output.tables
                                        /\ {output.tables[t][key]} = vals

\* The magic numbers differ; cmap and hhea had been merged when head failed.
C3_Witness ==
    /\ pc = "done"
    /\ error = Raise("AssertionError", "head", "magicNumber")
    /\ DOMAIN mega = {"cmap", "hhea"}
    /\ output = None

\* Some hinting-program table is in one font and not in another.
HintMismatch ==
    \E t \in HintingTags : \E k1, k2 \in 1..Len(fontfiles) :
        t \in DOMAIN fontfiles[k1].tables /\ t \notin DOMAIN fontfiles[k2].tables

\* Every other table that the dispatch hands to a merger is in every font,
\* and its merger does not raise.
OthersMerge ==
    \A t \in InputTags \ HintingTags :
        (hasMerge(t) /\ ~InDropTables(t)) =>
            /\ EveryFontHas(t)
            /\ \A now \in NowValues :
                  table_merge(t, SourceTables(t), now).status # "raised"

(***************************************************************************)
(* C6: with the default options, merging a font that has a hinting-program *)
(* table (fpgm, prep, 'cvt ') with a font that lacks it raises nothing on  *)
(* account of those tables, completes when the other tables merge, and     *)
(* the output font has no table under any of those tags.                   *)
(***************************************************************************)
C6_HintingDropped ==
    (pc = "done" /\ drop_tables = _drop_tables_default /\ HintMismatch) =>
        /\ error.tag \notin HintingTags
        /\ OthersMerge => (error = NoError /\ output # None)
        /\ DOMAIN mega \cap HintingTags = {}
        /\ output # None => DOMAIN output.tables \cap HintingTags = {}

C6_Witness ==
    /\ pc = "done"
    /\ drop_tables = _drop_tables_default
    /\ HintMismatch
    /\ output # None
    /\ {<<"Dropping", t>> : t \in HintingTags} \subseteq log

\* The glyphs that the tables of a font name: the keys of the hmtx and vmtx
\* metrics and of the glyf glyphs, the values of the cmap subtables, the
\* GDEF coverage glyphs and class-mapping keys.
CoverageOf(sub) == IF sub = None THEN {} ELSE Range(sub.Coverage.glyphs)

ClassKeysOf(sub) == IF sub = None THEN {} ELSE DOMAIN sub.classDefs

GlyphsNamedIn(t, table) ==
    CASE t \in {"hmtx", "vmtx"} -> DOMAIN table.metrics
      [] t = "glyf" -> DOMAIN table.glyphs
      [] t = "cmap" ->
           UNION {Range(table.tables[j].cmap) : j \in 1..Len(table.tables)}
      [] t = "GDEF" ->
           CoverageOf(table.table.LigCaretList) \cup
           CoverageOf(table.table.AttachList) \cup
           ClassKeysOf(table.table.MarkAttachClassDef) \cup
           ClassKeysOf(table.table.GlyphClassDef)
      [] OTHER -> {}

GlyphsNamed(tbls) == UNION {GlyphsNamedIn(t, tbls[t]) : t \in DOMAIN tbls}

\* Every glyph a table of the font file names is in its glyph order.
FontInvariant(font) == GlyphsNamed(font.tables) \subseteq 1..Len(font.glyphOrder)

(***************************************************************************)
(* C9: every glyph that a table of the returned font names is in the       *)
(* font's glyph order, provided that held of every input font; no table is *)
(* merged before the unifier has run and the renamed glyph orders are the  *)
(* ones the source tables are read with.                                   *)
(***************************************************************************)
C9_GlyphsInOrder ==
    /\ (output # None /\ \A k \in 1..Len(fontfiles) : FontInvariant(fontfiles[k]))
          => GlyphsNamed(output.tables) \subseteq Range(output.glyphOrder)
    /\ (mega # <<>> \/ tables # <<>> \/ log # {}) =>
          /\ pc # "start"
          /\ Len(glyphOrders) = Len(fontfiles)
          /\ \A k \in 1..Len(fontfiles) :
                Range(glyphOrders[k]) \subseteq Range(megaGlyphOrder)

C9_Witness ==
    /\ output # None
    /\ Len(fontfiles) = 2
    /\ {"GDEF", "glyf", "hmtx", "vmtx", "cmap"} \subseteq DOMAIN output.tables
    /\ Len(output.glyphOrder) = 4
    /\ Cardinality(GlyphsNamed(output.tables)) = 4

\* Installed only if not configured to be dropped, with a merge method,
\* and merged with output.
InstalledOnlyIfMerged ==
    \A t \in DOMAIN mega :
        /\ ~InDropTables(t)
        /\ hasMerge(t)
        /\ <<"Merged", t>> \in log
        /\ <<"DroppedNoNeed", t>> \notin log

=============================================================================
